---- MODULE Spec2Model ----
(***************************************************************************)
(* A model of gbp-pq (gbp/scripts/pq.py): the patch-queue branch naming,   *)
(* export of a patch-queue branch to a quilt series, import of a quilt     *)
(* series with the time machine, apply-and-commit and drop.                *)
(*                                                                         *)
(* Strings the code slices are sequences of tokens: a branch name is a     *)
(* sequence of tokens, a file name a sequence of characters, a path a      *)
(* sequence of components (each a file name), a file a sequence of lines.  *)
(* A line is a record [k, v]: k is the text the line starts with, v the    *)
(* rest of it.                                                             *)
(***************************************************************************)
EXTENDS Integers, Sequences, FiniteSets, TLC

VARIABLES
    refs,       \* branch name -> [at, commits]: the branches of the repository
    active,     \* the branch HEAD points to
    fs,         \* path -> file content: the working tree's patch files, the snapshots
    tmpdirs,    \* the gbp-pq* directories that exist below .git/
    control,    \* what debian/control holds
    pc,         \* where the running action stands ("main": between two actions)
    branch,     \* import_quilt_patches: branch
    pq_branch,  \* import_quilt_patches: pq_branch
    force,      \* import_quilt_patches: force
    tries,      \* import_quilt_patches: tries
    commits,    \* import_quilt_patches: commits, the candidates
    ci,         \* import_quilt_patches: index of the candidate of the outer loop
    queue,      \* import_quilt_patches: queue, the loaded series
    qi,         \* import_quilt_patches: index of the patch of the inner loop
    tmpdir,     \* import_quilt_patches: tmpdir
    series,     \* import_quilt_patches: series, the path of the series file
    log,        \* the actions main has run, each with its outcome
    budget,     \* the number of actions main runs in this behaviour
    pre,        \* the repository as it was when the running (or last) action began
    tried,      \* the candidates the running (or last) import tried, with their outcomes
    exported,   \* the commits the last export_patches was asked to export
    arg,        \* the argument of the function called on its own (<<>> under main)
    ret         \* what that function returned

vars == <<refs, active, fs, tmpdirs, control, pc, branch, pq_branch, force, tries,
          commits, ci, queue, qi, tmpdir, series, log, budget, pre, tried, exported,
          arg, ret>>

importVars == <<branch, pq_branch, force, tries, commits, ci, queue, qi, tmpdir, series>>

-----------------------------------------------------------------------------
(* Bounds *)

\* commits on the base branch
MaxHist == 3
\* the largest value of the time-machine option
MaxTries == 3
\* patches in a series, commits on a patch-queue branch
MaxSeries == 2
\* actions main runs in one behaviour (one more where an export is followed by an import)
MaxCalls == 1
\* the longest file name (in characters) write_patch is called with on its own
MaxName == 4
\* the most lines after the first of a patch write_patch is called with on its own
MaxLines == 3
\* the longest branch name (in tokens) the naming functions are called with
MaxBranch == 3

-----------------------------------------------------------------------------
(* Values *)

\* Python's None where a branch name is expected
None == <<"None">>
\* Python's None where a string (topic, author, email, date) is expected
NoneStr == "None"

PQ_BRANCH_PREFIX == <<"patch-queue/">>
PATCH_DIR == << <<"debian">>, <<"patches">> >>
SERIES_FILE == PATCH_DIR \o << <<"series">> >>

Master == <<"master">>

Digit == <<"1", "2", "3", "4", "5", "6", "7", "8", "9">>

startswith(s, p) == Len(s) >= Len(p) /\ SubSeq(s, 1, Len(p)) = p

Last(s) == s[Len(s)]

\* os.path.dirname of a path
dirname(p) == SubSeq(p, 1, Len(p) - 1)

-----------------------------------------------------------------------------
(* Branch naming *)

is_pq_branch(b) == startswith(b, PQ_BRANCH_PREFIX)

pq_branch_name(b) == IF ~is_pq_branch(b) THEN PQ_BRANCH_PREFIX \o b ELSE None

\* as pq_branch_base, returning the name with its prefix
pq_branch_base_unstripped(b) ==
    IF is_pq_branch(b) THEN b ELSE None

pq_branch_base(b) ==
    IF is_pq_branch(b) THEN SubSeq(b, Len(PQ_BRANCH_PREFIX) + 1, Len(b)) ELSE None

\* export_patches, lines 121-127: the branch it exports to and the patch-queue
\* branch it exports, from the current branch
ExportTarget(cur) ==
    LET b == IF is_pq_branch(cur) THEN pq_branch_base(cur) ELSE cur
    IN  [branch |-> b, pq_branch |-> pq_branch_name(b)]

\* import_quilt_patches with force, lines 200-209: the branch it imports on and
\* the patch-queue branch it creates, from the current branch
ImportTarget(cur) ==
    IF is_pq_branch(cur)
    THEN [branch |-> pq_branch_base(cur), pq_branch |-> pq_branch_name(pq_branch_base(cur))]
    ELSE [branch |-> cur, pq_branch |-> pq_branch_name(cur)]

-----------------------------------------------------------------------------
(* The repository, as the code uses it *)

has_branch(r, b) == b \in DOMAIN r

\* the number of commits on the first-parent chain of a ref
ChainLen(ref) == ref.at + Len(ref.commits)

\* the ref that points at the p-th commit (oldest first) of ref's chain
RefAt(ref, p) ==
    IF p <= ref.at THEN [at |-> p, commits |-> <<>>]
    ELSE [at |-> ref.at, commits |-> SubSeq(ref.commits, 1, p - ref.at)]

delete_branch(r, b) == [x \in DOMAIN r \ {b} |-> r[x]]

create_branch(r, b, ref) == [x \in DOMAIN r \cup {b} |-> IF x = b THEN ref ELSE r[x]]

-----------------------------------------------------------------------------
(* Files *)

L(key, val) == [k |-> key, v |-> val]

\* str.lower() of the text a line starts with
lower(k) ==
    CASE k = "Gbp-Pq-Topic: " -> "gbp-pq-topic: "
      [] k = "From " -> "from "
      [] k = "From: " -> "from: "
      [] k = "Date: " -> "date: "
      [] k = "Subject: " -> "subject: "
      [] OTHER -> k

TopicLine(t) == L("Gbp-Pq-Topic: ", <<t>>)

\* the paths of f below directory dir
Under(f, dir) == {p \in DOMAIN f : startswith(p, dir) /\ Len(p) > Len(dir)}

\* os.path.isdir, for the directories the model holds files in
isdir(f, dir) == Under(f, dir) # {}

\* as rmtree, removing the files of dir and none of its subdirectories
rmtree_files_only(f, dir) ==
    [p \in DOMAIN f \ {q \in Under(f, dir) : Len(q) = Len(dir) + 1} |-> f[p]]

\* shutil.rmtree(dir)
rmtree(f, dir) == [p \in DOMAIN f \ Under(f, dir) |-> f[p]]

\* the file at path p written with content c
WriteFile(f, p, c) == [x \in DOMAIN f \cup {p} |-> IF x = p THEN c ELSE f[x]]

\* os.unlink(p)
unlink(f, p) == [x \in DOMAIN f \ {p} |-> f[x]]

\* shutil.copytree(src, dst)
copytree(f, src, dst) ==
    LET new == {dst \o SubSeq(p, Len(src) + 1, Len(p)) : p \in Under(f, src)}
    IN  [x \in DOMAIN f \cup new |->
            IF x \in new THEN f[src \o SubSeq(x, Len(dst) + 1, Len(x))] ELSE f[x]]

IsDigit(ch) == ch \in {"0", "1", "2", "3", "4", "5", "6", "7", "8", "9"}

\* the length of the longest prefix of digits of a file name
RECURSIVE DigitRun(_)
DigitRun(name) ==
    IF name = <<>> \/ ~IsDigit(name[1]) THEN 0 ELSE 1 + DigitRun(Tail(name))

\* as StripNumber, for the pattern "[0-9]-(?P<name>.+)": one digit only
StripNumberOneDigit(name) ==
    IF Len(name) >= 3 /\ IsDigit(name[1]) /\ name[2] = "-"
    THEN SubSeq(name, 3, Len(name))
    ELSE name

\* re.compile("[0-9]+-(?P<name>.+)").match(name): the group 'name', or name itself
\* where the code keeps it (no match)
StripNumber(name) ==
    LET d == DigitRun(name)
    IN  IF d >= 1 /\ Len(name) >= d + 2 /\ name[d + 1] = "-"
        THEN SubSeq(name, d + 2, Len(name))
        ELSE name

\* the loop of write_patch over the lines after the first: the topic it ends with
RECURSIVE ScanTopic(_, _)
ScanTopic(lines, topic) ==
    IF lines = <<>> THEN topic
    ELSE IF lower(lines[1].k) = "gbp-pq-topic: "
         THEN ScanTopic(Tail(lines), lines[1].v[1])
         ELSE ScanTopic(Tail(lines), topic)

\* the loop of write_patch over the lines after the first: the lines it writes
RECURSIVE ScanLines(_)
ScanLines(lines) ==
    IF lines = <<>> THEN <<>>
    ELSE IF lower(lines[1].k) = "gbp-pq-topic: "
         THEN ScanLines(Tail(lines))
         ELSE <<lines[1]>> \o ScanLines(Tail(lines))

\* if topic: (None and the empty string are false)
Truthy(s) == s # NoneStr /\ s # ""

\* as write_patch, without skipping the first line
write_patch_keeps_first_line(f, patch, patch_numbers) ==
    LET oldname  == patch[Len(PATCH_DIR) + 1]
        rest     == f[patch]
        topic    == ScanTopic(rest, NoneStr)
        out      == ScanLines(rest)
        newname  == IF ~patch_numbers THEN StripNumber(oldname) ELSE oldname
        topicdir == IF Truthy(topic) THEN PATCH_DIR \o << <<topic>> >> ELSE PATCH_DIR
        dstname  == topicdir \o <<newname>>
    IN  [fs |-> WriteFile(unlink(f, patch), dstname, out), dstname |-> dstname]

\* write_patch(patch, options): the files after it and the name it returns
write_patch(f, patch, patch_numbers) ==
    LET oldname  == patch[Len(PATCH_DIR) + 1]
        rest     == Tail(f[patch])
        topic    == ScanTopic(rest, NoneStr)
        out      == ScanLines(rest)
        newname  == IF ~patch_numbers THEN StripNumber(oldname) ELSE oldname
        topicdir == IF Truthy(topic) THEN PATCH_DIR \o << <<topic>> >> ELSE PATCH_DIR
        dstname  == topicdir \o <<newname>>
    IN  [fs |-> WriteFile(unlink(f, patch), dstname, out), dstname |-> dstname]

\* the name git format-patch gives the j-th patch: NNNN-subject.patch
PatchName(j, subject) == <<"0", Digit[j], "-">> \o subject \o <<".patch">>

\* the file git format-patch writes for commit c
PatchFile(c) ==
    << L("From ", <<"sha1">>), L("From: ", <<c.name, c.email>>),
       L("Date: ", <<c.date>>), L("Subject: ", c.subject) >>
    \o c.body \o << L("diff", <<c.diff>>) >>

\* repo.format_patches(branch, pq_branch, PATCH_DIR): the commits of pq_branch that are
\* not on branch, oldest first
RangeCommits(r, b, pq) ==
    IF r[pq].at <= r[b].at THEN r[pq].commits ELSE <<>>

\* repo.format_patches: the paths of the patches it writes, in order
FormatPaths(cs) == [j \in 1..Len(cs) |-> PATCH_DIR \o <<PatchName(j, cs[j].subject)>>]

\* repo.format_patches: the files after it
RECURSIVE FormatFiles(_, _, _)
FormatFiles(f, cs, j) ==
    IF j > Len(cs) THEN f
    ELSE FormatFiles(WriteFile(f, FormatPaths(cs)[j], PatchFile(cs[j])), cs, j + 1)

\* as ExportLoop, each line written before the ones already there
RECURSIVE ExportLoopPrepends(_, _, _, _, _)
ExportLoopPrepends(f, patches, j, lines, patch_numbers) ==
    IF j > Len(patches) THEN [fs |-> f, lines |-> lines]
    ELSE LET w == write_patch(f, patches[j], patch_numbers)
         IN  ExportLoopPrepends(w.fs, patches, j + 1,
                        <<SubSeq(w.dstname, Len(PATCH_DIR) + 1, Len(w.dstname))>> \o lines,
                        patch_numbers)

\* the loop of export_patches over the patches: the files and the lines of the
\* series file after patch j and the ones before it
RECURSIVE ExportLoop(_, _, _, _, _)
ExportLoop(f, patches, j, lines, patch_numbers) ==
    IF j > Len(patches) THEN [fs |-> f, lines |-> lines]
    ELSE LET w == write_patch(f, patches[j], patch_numbers)
         IN  ExportLoop(w.fs, patches, j + 1,
                        Append(lines, SubSeq(w.dstname, Len(PATCH_DIR) + 1, Len(w.dstname))),
                        patch_numbers)

-----------------------------------------------------------------------------
(* Patches and the series *)

\* the value of the first line of a file that starts with key, or absent
Field(content, key, absent) ==
    LET is == {i \in DOMAIN content : content[i].k = key}
    IN  IF is = {} THEN absent
        ELSE content[CHOOSE i \in is : \A j \in is : i <= j].v

\* the lines of a patch file that are its long description
RECURSIVE DescLines(_)
DescLines(content) ==
    IF content = <<>> THEN <<>>
    ELSE IF content[1].k \in {"From ", "From: ", "Date: ", "Subject: ", "diff"}
         THEN DescLines(Tail(content))
         ELSE <<content[1]>> \o DescLines(Tail(content))

\* gbp.patch_series.Patch: the patch file at path, with the topic the series gives it
Patch(f, path, topic) ==
    [path      |-> path,
     topic     |-> topic,
     author    |-> Field(f[path], "From: ", <<NoneStr, NoneStr>>)[1],
     email     |-> Field(f[path], "From: ", <<NoneStr, NoneStr>>)[2],
     date      |-> Field(f[path], "Date: ", <<NoneStr>>)[1],
     subject   |-> Field(f[path], "Subject: ", <<>>),
     long_desc |-> DescLines(f[path]),
     diff      |-> Field(f[path], "diff", <<NoneStr>>)[1]]

\* the topic of a line of the series file: the directory it names, or None
LineTopic(line) == IF Len(line) > 1 THEN line[1][1] ELSE NoneStr

\* PatchSeries.read_series_file(series): one Patch per line, in the file's order
read_series_file(f, seriesfile) ==
    [j \in 1..Len(f[seriesfile]) |->
        Patch(f, dirname(seriesfile) \o f[seriesfile][j], LineTopic(f[seriesfile][j]))]

\* tempfile.mkdtemp(dir='.git/', prefix='gbp-pq'): a directory that does not exist yet
mkdtemp(dirs) ==
    LET n == CHOOSE i \in 1..Len(Digit) :
                 /\ << <<".git">>, <<"gbp-pq", Digit[i]>> >> \notin dirs
                 /\ \A j \in 1..(i - 1) : << <<".git">>, <<"gbp-pq", Digit[j]>> >> \in dirs
    IN  << <<".git">>, <<"gbp-pq", Digit[n]>> >>

\* safe_patches(series): the files after it, tmpdir and the path of the safed series
safe_patches(f, dirs, seriesfile) ==
    LET src     == dirname(seriesfile)
        name    == Last(seriesfile)
        tmp     == mkdtemp(dirs)
        patches == tmp \o << <<"patches">> >>
    IN  [fs |-> copytree(f, src, patches), tmpdir |-> tmp, series |-> patches \o <<name>>]

\* what sed prints for debian/control: the values of its Maintainer fields
SedOutput(ctl) ==
    CASE ctl = "missing"     -> <<>>
      [] ctl = "nofield"     -> <<>>
      [] ctl = "unparseable" -> << <<"Jane Doe">> >>
      [] ctl = "ok"          -> << <<"Jane Doe", "<", "jane@example.org", ">">> >>

\* get_maintainer_from_control(): raised is the IndexError of readlines()[0]
get_maintainer_from_control(ctl) ==
    IF SedOutput(ctl) = <<>>
    THEN [raised |-> TRUE, name |-> NoneStr, email |-> NoneStr]
    ELSE LET maintainer == SedOutput(ctl)[1]
         IN  IF Len(maintainer) = 4 /\ maintainer[2] = "<" /\ maintainer[4] = ">"
             THEN [raised |-> FALSE, name |-> maintainer[1], email |-> maintainer[3]]
             ELSE [raised |-> FALSE, name |-> NoneStr, email |-> NoneStr]

\* ResolveAuthor, asking for the maintainer only when the patch has no author name
ResolveAuthorNameOnly(patch, ctl) ==
    LET author == [name |-> patch.author, email |-> patch.email, date |-> patch.date]
    IN  IF ~Truthy(patch.author)
        THEN LET m == get_maintainer_from_control(ctl)
             IN  IF m.raised THEN [raised |-> TRUE, author |-> author]
                 ELSE IF Truthy(m.name)
                      THEN [raised |-> FALSE,
                            author |-> [author EXCEPT !.name = m.name, !.email = m.email]]
                      ELSE [raised |-> FALSE, author |-> author]
        ELSE [raised |-> FALSE, author |-> author]

\* apply_and_commit_patch, lines 277-289: the author dictionary
ResolveAuthor(patch, ctl) ==
    LET author == [name |-> patch.author, email |-> patch.email, date |-> patch.date]
    IN  IF ~(Truthy(patch.author) /\ Truthy(patch.email))
        THEN LET m == get_maintainer_from_control(ctl)
             IN  IF m.raised THEN [raised |-> TRUE, author |-> author]
                 ELSE IF Truthy(m.name)
                      THEN [raised |-> FALSE,
                            author |-> [author EXCEPT !.name = m.name, !.email = m.email]]
                      ELSE [raised |-> FALSE, author |-> author]
        ELSE [raised |-> FALSE, author |-> author]

\* apply_and_commit_patch, lines 291-296: the commit it creates
NewCommit(patch, topic, author) ==
    [subject |-> patch.subject,
     body    |-> patch.long_desc \o (IF Truthy(topic) THEN <<TopicLine(topic)>> ELSE <<>>),
     name    |-> author.name,
     email   |-> author.email,
     date    |-> author.date,
     diff    |-> patch.diff]

\* repo.update_ref('HEAD', commit): the branch HEAD points to moves to the commit
update_ref_HEAD(r, head, commit) ==
    [r EXCEPT ![head].commits = Append(@, commit)]

-----------------------------------------------------------------------------
(* The initial states: a repository with a base branch of 1..MaxHist commits,    *)
(* and either a series on disk (with or without an empty patch-queue branch), or *)
(* a patch-queue branch with commits and no patches directory                    *)

Author == [name |-> "A", email |-> "a@example.org", date |-> "D"]

Commit(subject, body, diff) ==
    [subject |-> subject, body |-> body,
     name |-> Author.name, email |-> Author.email, date |-> Author.date, diff |-> diff]

PoolCommits ==
    { Commit(<<"f">>, <<>>, "d1"),
      Commit(<<"f">>, <<L("", <<"text">>)>>, "d2"),
      Commit(<<"g">>, <<TopicLine("t")>>, "d3") }

\* a patch file on disk: the line of the series file that names it, and its content
DiskPatch(rel, header, subject, diff) ==
    [rel |-> rel,
     content |-> header \o << L("Date: ", <<"D">>), L("Subject: ", subject),
                              L("diff", <<diff>>) >>]

PoolPatches ==
    { DiskPatch(<< <<"f", ".patch">> >>, <<L("From: ", <<"A", "a@example.org">>)>>, <<"f">>, "d1"),
      DiskPatch(<< <<"t">>, <<"g", ".patch">> >>, <<>>, <<"g">>, "d2"),
      DiskPatch(<< <<"h", ".patch">> >>, <<L("From: ", <<"A", NoneStr>>)>>, <<"h">>, "d3") }

\* the sequences of at most n distinct elements of S
Injective(S, n) ==
    UNION { {s \in [1..k -> S] : \A i, j \in 1..k : s[i] = s[j] => i = j} : k \in 0..n }

\* the patches directory that holds the series ps
DiskOf(ps) ==
    LET paths == {PATCH_DIR \o ps[j].rel : j \in DOMAIN ps}
    IN  [x \in paths \cup {SERIES_FILE} |->
            IF x = SERIES_FILE THEN [j \in DOMAIN ps |-> ps[j].rel]
            ELSE ps[CHOOSE j \in DOMAIN ps : PATCH_DIR \o ps[j].rel = x].content]

NoDir == <<>>
NoFiles == <<>>

ControlStates == {"missing", "nofield", "unparseable", "ok"}

Snapshot == [refs |-> refs, active |-> active, fs |-> fs, tmpdirs |-> tmpdirs]

InitLocals ==
    /\ pc = "main"
    /\ branch = None /\ pq_branch = None /\ force = FALSE /\ tries = 1
    /\ commits = <<>> /\ ci = 0 /\ queue = <<>> /\ qi = 0
    /\ tmpdir = NoDir /\ series = SERIES_FILE
    /\ log = <<>> /\ tried = <<>> /\ exported = <<>>
    /\ arg = <<>> /\ ret = <<>>
    /\ tmpdirs = {}
    /\ pre = Snapshot

InitSeries ==
    /\ \E n \in 1..MaxHist, pq \in BOOLEAN :
          refs = IF pq
                 THEN (Master :> [at |-> n, commits |-> <<>>]) @@
                      (pq_branch_name(Master) :> [at |-> n, commits |-> <<>>])
                 ELSE (Master :> [at |-> n, commits |-> <<>>])
    /\ active \in DOMAIN refs
    /\ \E ps \in Injective(PoolPatches, MaxSeries) : fs = DiskOf(ps)
    /\ control \in ControlStates

InitQueue ==
    /\ \E n \in 1..MaxHist, at \in 1..MaxHist, cs \in Injective(PoolCommits, MaxSeries) :
          /\ at <= n /\ cs # <<>>
          /\ refs = (Master :> [at |-> n, commits |-> <<>>]) @@
                    (pq_branch_name(Master) :> [at |-> at, commits |-> cs])
    /\ active \in DOMAIN refs
    /\ fs = NoFiles
    /\ control = "ok"

Init == (InitSeries \/ InitQueue) /\ InitLocals /\ budget = MaxCalls

\* a patch-queue branch with commits, for an export followed by an import
InitRoundTrip == InitQueue /\ InitLocals /\ budget = MaxCalls + 1

-----------------------------------------------------------------------------
(* main and the actions it runs.  Every action starts in main with the current  *)
(* branch (repo.get_branch()) and ends by recording its outcome in log.         *)

Done(op, res, msg) ==
    /\ log' = Append(log, [op |-> op, res |-> res, msg |-> msg])
    /\ pc' = "main"
    /\ UNCHANGED <<budget, arg, ret>>

CanCall == pc = "main" /\ Len(log) < budget

\* drop_pq, deleting the patch-queue branch it is called on instead of raising
drop_pq_drops_current(r, b) ==
    IF is_pq_branch(b) THEN [raised |-> FALSE, refs |-> delete_branch(r, b)]
    ELSE LET pq == pq_branch_name(b)
         IN  IF has_branch(r, pq)
             THEN [raised |-> FALSE, refs |-> delete_branch(r, pq)]
             ELSE [raised |-> FALSE, refs |-> r]

\* drop_pq, deleting the branch it is called on instead of its patch-queue branch
drop_pq_drops_base(r, b) ==
    IF is_pq_branch(b) THEN [raised |-> TRUE, refs |-> r]
    ELSE LET pq == pq_branch_name(b)
         IN  IF has_branch(r, pq)
             THEN [raised |-> FALSE, refs |-> delete_branch(r, b)]
             ELSE [raised |-> FALSE, refs |-> r]

\* drop_pq(repo, branch): raised or not, and the branches after it
drop_pq(r, b) ==
    IF is_pq_branch(b) THEN [raised |-> TRUE, refs |-> r]
    ELSE LET pq == pq_branch_name(b)
         IN  IF has_branch(r, pq)
             THEN [raised |-> FALSE, refs |-> delete_branch(r, pq)]
             ELSE [raised |-> FALSE, refs |-> r]

\* main, action "drop"
Drop ==
    /\ CanCall
    /\ pre' = Snapshot
    /\ LET d == drop_pq(refs, active)
       IN  /\ refs' = d.refs
           /\ Done("drop", IF d.raised THEN "GbpError" ELSE "ok", "")
    /\ UNCHANGED <<active, fs, tmpdirs, control, importVars, tried, exported>>

\* repo.get_commits(options=['-%d' % tries], first_parent=True): the positions on the
\* chain of HEAD of its last tries commits, most recent first
get_commits(ref, n) ==
    LET k == IF n < ChainLen(ref) THEN n ELSE ChainLen(ref)
    IN  [i \in 1..k |-> ChainLen(ref) - i + 1]

\* the series file exists and every patch it names does: what import is run on
SeriesReadable(f) ==
    /\ SERIES_FILE \in DOMAIN f
    /\ \A j \in DOMAIN f[SERIES_FILE] : PATCH_DIR \o f[SERIES_FILE][j] \in DOMAIN f

\* main, action "import", and import_quilt_patches, lines 198-209
ImportBegin ==
    /\ CanCall
    /\ SeriesReadable(fs)
    /\ pre' = Snapshot
    /\ tried' = <<>>
    /\ \E f \in BOOLEAN, t \in 1..MaxTries :
          /\ force' = f
          /\ tries' = t
          /\ commits' = <<>> /\ ci' = 0 /\ queue' = <<>> /\ qi' = 0
          /\ tmpdir' = NoDir /\ series' = SERIES_FILE
          /\ IF is_pq_branch(active)
             THEN IF f
                  THEN /\ branch' = ImportTarget(active).branch
                       /\ pq_branch' = ImportTarget(active).pq_branch
                       /\ active' = ImportTarget(active).branch
                       /\ pc' = "import_211"
                       /\ UNCHANGED <<log, budget, arg, ret>>
                  ELSE /\ branch' = active
                       /\ pq_branch' = None
                       /\ Done("import", "GbpError", "on-pq")
                       /\ UNCHANGED active
             ELSE /\ branch' = ImportTarget(active).branch
                  /\ pq_branch' = ImportTarget(active).pq_branch
                  /\ pc' = "import_211"
                  /\ UNCHANGED <<active, log, budget, arg, ret>>
    /\ UNCHANGED <<refs, fs, tmpdirs, control, exported>>

\* ImportHasBranch, dropping the patch-queue branch whether force is set or not
ImportHasBranchAlwaysDrops ==
    /\ pc = "import_211"
    /\ IF has_branch(refs, pq_branch)
       THEN LET d == drop_pq(refs, branch)
            IN  IF d.raised
                THEN Done("import", "GbpError", "drop") /\ UNCHANGED refs
                ELSE refs' = d.refs /\ pc' = "import_218" /\ UNCHANGED <<log, budget, arg, ret>>
       ELSE pc' = "import_218" /\ UNCHANGED <<refs, log, budget, arg, ret>>
    /\ UNCHANGED <<active, fs, tmpdirs, control, importVars, pre, tried, exported>>

\* import_quilt_patches, lines 211-216
ImportHasBranch ==
    /\ pc = "import_211"
    /\ IF has_branch(refs, pq_branch)
       THEN IF force
            THEN LET d == drop_pq(refs, branch)
                 IN  IF d.raised
                     THEN Done("import", "GbpError", "drop") /\ UNCHANGED refs
                     ELSE refs' = d.refs /\ pc' = "import_218" /\ UNCHANGED <<log, budget, arg, ret>>
            ELSE Done("import", "GbpError", "exists") /\ UNCHANGED refs
       ELSE pc' = "import_218" /\ UNCHANGED <<refs, log, budget, arg, ret>>
    /\ UNCHANGED <<active, fs, tmpdirs, control, importVars, pre, tried, exported>>

\* ImportLoad, calling safe_patches whatever the number of commits
ImportLoadAlwaysSafes ==
    /\ pc = "import_218"
    /\ LET cs == get_commits(refs[active], tries)
           s  == safe_patches(fs, tmpdirs, series)
       IN  /\ commits' = cs
           /\ fs' = s.fs
           /\ tmpdir' = s.tmpdir
           /\ tmpdirs' = tmpdirs \cup {s.tmpdir}
           /\ series' = s.series
           /\ queue' = read_series_file(s.fs, s.series)
           /\ ci' = 1
           /\ qi' = 0
           /\ pc' = "import_228"
    /\ UNCHANGED <<refs, active, control, branch, pq_branch, force, tries,
                   log, budget, arg, ret, pre, tried, exported>>

\* import_quilt_patches, lines 218-224
ImportLoad ==
    /\ pc = "import_218"
    /\ LET cs == get_commits(refs[active], tries)
           s  == IF Len(cs) > 1 THEN safe_patches(fs, tmpdirs, series)
                 ELSE [fs |-> fs, tmpdir |-> NoDir, series |-> series]
       IN  /\ commits' = cs
           /\ fs' = s.fs
           /\ tmpdir' = s.tmpdir
           /\ tmpdirs' = IF Len(cs) > 1 THEN tmpdirs \cup {s.tmpdir} ELSE tmpdirs
           /\ series' = s.series
           /\ queue' = read_series_file(s.fs, s.series)
           /\ ci' = 1
           /\ qi' = 0
           /\ pc' = "import_228"
    /\ UNCHANGED <<refs, active, control, branch, pq_branch, force, tries,
                   log, budget, arg, ret, pre, tried, exported>>


\* apply_and_commit_patch(repo, patch, topic); applies is whether repo.apply_patch
\* succeeds.  res: "IndexError" (raised by get_maintainer_from_control),
\* "failed" (raised by repo.apply_patch) or "ok"
apply_and_commit_patch(r, head, patch, topic, ctl, applies) ==
    LET a == ResolveAuthor(patch, ctl)
    IN  IF a.raised THEN [res |-> "IndexError", refs |-> r]
        ELSE IF ~applies THEN [res |-> "failed", refs |-> r]
        ELSE [res |-> "ok",
              refs |-> update_ref_HEAD(r, head, NewCommit(patch, topic, a.author))]

Tried(c, outcome) == Append(tried, [commit |-> c, outcome |-> outcome])

\* ImportCreate, creating the branch at HEAD: repo.create_branch(pq_branch)
ImportCreateAtHead ==
    /\ pc = "import_228"
    /\ \E created \in BOOLEAN :
          IF created /\ ~has_branch(refs, pq_branch)
          THEN /\ refs' = create_branch(refs, pq_branch, refs[active])
               /\ active' = pq_branch
               /\ IF queue = <<>>
                  THEN /\ pc' = "import_247"
                       /\ tried' = Tried(commits[ci], "applied")
                       /\ UNCHANGED qi
                  ELSE /\ pc' = "import_236"
                       /\ qi' = 1
                       /\ UNCHANGED tried
               /\ UNCHANGED <<log, budget, arg, ret>>
          ELSE /\ Done("import", "GbpError", "create")
               /\ tried' = Tried(commits[ci], "create_failed")
               /\ UNCHANGED <<refs, active, qi>>
    /\ UNCHANGED <<fs, tmpdirs, control, branch, pq_branch, force, tries, commits, ci,
                   queue, tmpdir, series, pre, exported>>

\* ImportCreate, going on to the next candidate when repo.create_branch fails
ImportCreateRetries ==
    /\ pc = "import_228"
    /\ \E created \in BOOLEAN :
          IF created /\ ~has_branch(refs, pq_branch)
          THEN /\ refs' = create_branch(refs, pq_branch, RefAt(refs[branch], commits[ci]))
               /\ active' = pq_branch
               /\ IF queue = <<>>
                  THEN /\ pc' = "import_247"
                       /\ tried' = Tried(commits[ci], "applied")
                       /\ UNCHANGED <<qi, ci>>
                  ELSE /\ pc' = "import_236"
                       /\ qi' = 1
                       /\ UNCHANGED <<tried, ci>>
               /\ UNCHANGED <<log, budget, arg, ret>>
          ELSE /\ tried' = Tried(commits[ci], "create_failed")
               /\ IF ci < Len(commits)
                  THEN ci' = ci + 1 /\ UNCHANGED <<pc, log, budget, arg, ret>>
                  ELSE Done("import", "GbpError", "apply") /\ UNCHANGED ci
               /\ UNCHANGED <<refs, active, qi>>
    /\ UNCHANGED <<fs, tmpdirs, control, branch, pq_branch, force, tries, commits,
                   queue, tmpdir, series, pre, exported>>

\* import_quilt_patches, lines 225-232, and 241-243 for an empty queue;
\* created is whether repo.create_branch succeeds
ImportCreate ==
    /\ pc = "import_228"
    /\ \E created \in BOOLEAN :
          IF created /\ ~has_branch(refs, pq_branch)
          THEN /\ refs' = create_branch(refs, pq_branch, RefAt(refs[branch], commits[ci]))
               /\ active' = pq_branch
               /\ IF queue = <<>>
                  THEN /\ pc' = "import_247"
                       /\ tried' = Tried(commits[ci], "applied")
                       /\ UNCHANGED qi
                  ELSE /\ pc' = "import_236"
                       /\ qi' = 1
                       /\ UNCHANGED tried
               /\ UNCHANGED <<log, budget, arg, ret>>
          ELSE /\ Done("import", "GbpError", "create")
               /\ tried' = Tried(commits[ci], "create_failed")
               /\ UNCHANGED <<refs, active, qi>>
    /\ UNCHANGED <<fs, tmpdirs, control, branch, pq_branch, force, tries, commits, ci,
                   queue, tmpdir, series, pre, exported>>

\* import_quilt_patches, lines 233-237 and 241-243: one patch of the queue
ImportApply ==
    /\ pc = "import_236"
    /\ \E applies \in BOOLEAN :
          LET o == apply_and_commit_patch(refs, active, queue[qi], queue[qi].topic,
                                          control, applies)
          IN  /\ refs' = o.refs
              /\ CASE o.res = "IndexError" ->
                        /\ Done("import", "IndexError", "maintainer")
                        /\ UNCHANGED <<qi, tried>>
                   [] o.res = "failed" ->
                        /\ pc' = "import_238"
                        /\ UNCHANGED <<qi, tried, log, budget, arg, ret>>
                   [] o.res = "ok" ->
                        IF qi < Len(queue)
                        THEN /\ qi' = qi + 1
                             /\ UNCHANGED <<pc, tried, log, budget, arg, ret>>
                        ELSE /\ pc' = "import_247"
                             /\ tried' = Tried(commits[ci], "applied")
                             /\ UNCHANGED <<qi, log, budget, arg, ret>>
    /\ UNCHANGED <<active, fs, tmpdirs, control, branch, pq_branch, force, tries, commits,
                   ci, queue, tmpdir, series, pre, exported>>

\* ImportRollback, without the repo.delete_branch(pq_branch) of line 239
ImportRollbackKeepsBranch ==
    /\ pc = "import_238"
    /\ active' = branch
    /\ tried' = Tried(commits[ci], "apply_failed")
    /\ IF ci < Len(commits)
       THEN ci' = ci + 1 /\ pc' = "import_228" /\ UNCHANGED <<log, budget, arg, ret>>
       ELSE Done("import", "GbpError", "apply") /\ UNCHANGED ci
    /\ UNCHANGED <<refs, fs, tmpdirs, control, branch, pq_branch, force, tries, commits,
                   queue, qi, tmpdir, series, pre, exported>>

\* import_quilt_patches, lines 238-240 and 244-245
ImportRollback ==
    /\ pc = "import_238"
    /\ active' = branch
    /\ refs' = delete_branch(refs, pq_branch)
    /\ tried' = Tried(commits[ci], "apply_failed")
    /\ IF ci < Len(commits)
       THEN ci' = ci + 1 /\ pc' = "import_228" /\ UNCHANGED <<log, budget, arg, ret>>
       ELSE Done("import", "GbpError", "apply") /\ UNCHANGED ci
    /\ UNCHANGED <<fs, tmpdirs, control, branch, pq_branch, force, tries, commits,
                   queue, qi, tmpdir, series, pre, exported>>

\* import_quilt_patches, lines 247-249
ImportCleanup ==
    /\ pc = "import_247"
    /\ IF tmpdir # NoDir
       THEN fs' = rmtree(fs, tmpdir) /\ tmpdirs' = tmpdirs \ {tmpdir}
       ELSE UNCHANGED <<fs, tmpdirs>>
    /\ Done("import", "ok", "")
    /\ UNCHANGED <<refs, active, control, importVars, pre, tried, exported>>

\* main, action "export", and export_patches; removed is whether shutil.rmtree
\* succeeds (a missing directory does not count as a failure)
Export ==
    /\ CanCall
    /\ pre' = Snapshot
    /\ \E patch_numbers \in BOOLEAN, removed \in BOOLEAN :
          LET b  == ExportTarget(active).branch
              pq == ExportTarget(active).pq_branch
              f1 == rmtree(fs, PATCH_DIR)
          IN  /\ active' = b
              /\ IF ~removed /\ isdir(fs, PATCH_DIR)
                 THEN /\ \E keep \in SUBSET Under(fs, PATCH_DIR) :
                            /\ keep # {}
                            /\ fs' = [x \in (DOMAIN fs \ Under(fs, PATCH_DIR)) \cup keep |-> fs[x]]
                      /\ Done("export", "GbpError", "rmtree")
                      /\ UNCHANGED exported
                 ELSE IF ~has_branch(refs, pq)
                 THEN /\ fs' = f1
                      /\ Done("export", "CommandExecFailed", "format-patch")
                      /\ UNCHANGED exported
                 ELSE LET cs      == RangeCommits(refs, b, pq)
                          patches == FormatPaths(cs)
                          f2      == FormatFiles(f1, cs, 1)
                          e       == ExportLoop(f2, patches, 1, <<>>, patch_numbers)
                      IN  /\ exported' = cs
                          /\ fs' = IF patches # <<>>
                                   THEN WriteFile(e.fs, SERIES_FILE, e.lines)
                                   ELSE f2
                          /\ Done("export", "ok", IF patch_numbers THEN "numbers" ELSE "")
    /\ UNCHANGED <<refs, tmpdirs, control, importVars, tried>>

\* ApplySingle, without the switch to the patch-queue branch of lines 256-264
ApplySingleOnActive ==
    /\ CanCall
    /\ pre' = Snapshot
    /\ \E patchfile \in Under(fs, PATCH_DIR) \ {SERIES_FILE}, topic \in {NoneStr, "u"},
          created \in BOOLEAN, applies \in BOOLEAN :
          LET pq == pq_branch_name(active)
          IN  IF ~is_pq_branch(active) /\ ~has_branch(refs, pq) /\ ~created
              THEN /\ Done("apply", "GbpError", "create")
                   /\ UNCHANGED <<refs, active>>
              ELSE LET r1 == IF ~is_pq_branch(active) /\ ~has_branch(refs, pq)
                             THEN create_branch(refs, pq, refs[active]) ELSE refs
                       h1 == active
                       o  == apply_and_commit_patch(r1, h1, Patch(fs, patchfile, NoneStr),
                                                    topic, control, applies)
                   IN  /\ refs' = o.refs
                       /\ active' = h1
                       /\ Done("apply", IF o.res = "ok" THEN "ok"
                                        ELSE IF o.res = "failed" THEN "CommandExecFailed"
                                        ELSE o.res, "")
    /\ UNCHANGED <<fs, tmpdirs, control, importVars, tried, exported>>

\* main, action "apply", apply_single_patch and switch_to_pq_branch; created is
\* whether repo.create_branch succeeds, applies whether repo.apply_patch does
ApplySingle ==
    /\ CanCall
    /\ pre' = Snapshot
    /\ \E patchfile \in Under(fs, PATCH_DIR) \ {SERIES_FILE}, topic \in {NoneStr, "u"},
          created \in BOOLEAN, applies \in BOOLEAN :
          LET pq == pq_branch_name(active)
          IN  IF ~is_pq_branch(active) /\ ~has_branch(refs, pq) /\ ~created
              THEN /\ Done("apply", "GbpError", "create")
                   /\ UNCHANGED <<refs, active>>
              ELSE LET r1 == IF ~is_pq_branch(active) /\ ~has_branch(refs, pq)
                             THEN create_branch(refs, pq, refs[active]) ELSE refs
                       h1 == IF is_pq_branch(active) THEN active ELSE pq
                       o  == apply_and_commit_patch(r1, h1, Patch(fs, patchfile, NoneStr),
                                                    topic, control, applies)
                   IN  /\ refs' = o.refs
                       /\ active' = h1
                       /\ Done("apply", IF o.res = "ok" THEN "ok"
                                        ELSE IF o.res = "failed" THEN "CommandExecFailed"
                                        ELSE o.res, "")
    /\ UNCHANGED <<fs, tmpdirs, control, importVars, tried, exported>>

Next ==
    \/ Drop
    \/ ImportBegin
    \/ ImportHasBranch
    \/ ImportLoad
    \/ ImportCreate
    \/ ImportApply
    \/ ImportRollback
    \/ ImportCleanup
    \/ Export
    \/ ApplySingle

Spec == Init /\ [][Next]_vars

\* an export followed by an import: main runs one action more
NextRoundTrip ==
    \/ Export
    \/ ImportBegin
    \/ ImportHasBranch
    \/ ImportLoad
    \/ ImportCreate
    \/ ImportApply
    \/ ImportRollback
    \/ ImportCleanup

SpecRoundTrip == InitRoundTrip /\ [][NextRoundTrip]_vars

-----------------------------------------------------------------------------
(* The functions of the two modules called on their own: pc names the function  *)
(* that is about to be called with arg, or that has returned ret.               *)

\* the sequences of at most n elements of S
BSeq(S, n) == UNION {[1..k -> S] : k \in 0..n}

NameChars == {"0", "1", "-", "f"}

BodyLines == {L("Gbp-Pq-Topic: ", <<"a">>), L("gbp-pq-topic: ", <<"b">>), L("", <<"text">>)}

\* a patch as git format-patch leaves it in the patches directory
RawPatch(name, body) ==
    [patch |-> PATCH_DIR \o <<name>>, lines |-> <<L("From ", <<"sha1">>)>> \o body]

WritePatchInputs ==
    {RawPatch(name, <<>>) : name \in BSeq(NameChars, MaxName) \ {<<>>}}
    \cup {RawPatch(<<"0", "1", "-", "f">>, body) : body \in BSeq(BodyLines, MaxLines)}

InitPureLocals ==
    /\ refs = (Master :> [at |-> 1, commits |-> <<>>]) /\ active = Master
    /\ control = "ok" /\ tmpdirs = {}
    /\ branch = None /\ pq_branch = None /\ force = FALSE /\ tries = 1
    /\ commits = <<>> /\ ci = 0 /\ queue = <<>> /\ qi = 0
    /\ tmpdir = NoDir /\ series = SERIES_FILE
    /\ log = <<>> /\ tried = <<>> /\ exported = <<>>
    /\ budget = 0
    /\ ret = <<>>
    /\ pre = Snapshot

InitWritePatch ==
    /\ pc = "write_patch"
    /\ arg \in WritePatchInputs
    /\ fs = (arg.patch :> arg.lines)

pureVars == <<refs, active, tmpdirs, control, importVars, log, budget, pre, tried,
              exported, arg>>

\* write_patch(patch, options) on a patch that format-patch wrote
WritePatchCall ==
    /\ pc = "write_patch"
    /\ \E patch_numbers \in BOOLEAN :
          LET w == write_patch(fs, arg.patch, patch_numbers)
          IN  /\ fs' = w.fs
              /\ ret' = [dstname |-> w.dstname, patch_numbers |-> patch_numbers]
    /\ pc' = "write_patch_returned"
    /\ UNCHANGED pureVars

(* GitModifier: name, email and date, each None or a string *)

\* str.upper() of a role
upper(who) ==
    CASE who \in {"author", "Author", "AUTHOR"} -> "AUTHOR"
      [] who \in {"committer", "Committer", "COMMITTER"} -> "COMMITTER"
      [] who = "tagger" -> "TAGGER"
      [] OTHER -> who

\* 'GIT_%s_NAME' % who and the like
EnvKey(who, field) == <<"GIT_", who, "_", field>>

\* as _get_env, with a pair for every field, set or not
get_env_all_fields(self, who) ==
    LET w == upper(who)
    IN  IF w \notin {"AUTHOR", "COMMITTER"}
        THEN [raised |-> "GitModifierError", env |-> {}]
        ELSE [raised |-> NoneStr,
              env |-> {<<EnvKey(w, "NAME"), self.name>>, <<EnvKey(w, "EMAIL"), self.email>>,
                       <<EnvKey(w, "DATE"), self.date>>}]

\* GitModifier._get_env(who): the exception it raises, or the dictionary it
\* returns as a set of <<key, value>> pairs
get_env(self, who) ==
    LET w == upper(who)
    IN  IF w \notin {"AUTHOR", "COMMITTER"}
        THEN [raised |-> "GitModifierError", env |-> {}]
        ELSE [raised |-> NoneStr,
              env |-> (IF Truthy(self.name) THEN {<<EnvKey(w, "NAME"), self.name>>} ELSE {})
                      \cup (IF Truthy(self.email) THEN {<<EnvKey(w, "EMAIL"), self.email>>} ELSE {})
                      \cup (IF Truthy(self.date) THEN {<<EnvKey(w, "DATE"), self.date>>} ELSE {})]

Roles == {"author", "committer", "Author", "AUTHOR", "COMMITTER", "tagger", ""}

FieldValues == {NoneStr, "", "x"}

InitGetEnv ==
    /\ pc = "get_env"
    /\ arg \in [who : Roles, name : FieldValues, email : FieldValues, date : FieldValues]
    /\ fs = NoFiles

\* GitModifier(name, email, date)._get_env(who)
GetEnvCall ==
    /\ pc = "get_env"
    /\ ret' = get_env(arg, arg.who)
    /\ pc' = "get_env_returned"
    /\ UNCHANGED <<fs, pureVars>>

BranchTokens == {"patch-queue/", "master", "x"}

\* git has no branch name that ends with a slash
BranchNames ==
    {n \in BSeq(BranchTokens, MaxBranch) : n # <<>> /\ <<Last(n)>> # PQ_BRANCH_PREFIX}

InitNaming ==
    /\ pc \in {"naming", "target"}
    /\ arg \in BranchNames
    /\ fs = NoFiles

\* is_pq_branch, pq_branch_name and pq_branch_base of a name, and of the name
\* pq_branch_name made of it
NamingCall ==
    /\ pc = "naming"
    /\ LET name == pq_branch_name(arg)
       IN  ret' = [is_pq |-> is_pq_branch(arg),
                   name |-> name,
                   base |-> pq_branch_base(arg),
                   is_pq_of_name |-> IF name # None THEN is_pq_branch(name) ELSE FALSE,
                   base_of_name |-> IF name # None THEN pq_branch_base(name) ELSE None]
    /\ pc' = "naming_returned"
    /\ UNCHANGED <<fs, pureVars>>

\* the patch-queue branch export_patches, or import_quilt_patches with force,
\* works on when the current branch is arg
TargetCall ==
    /\ pc = "target"
    /\ \E op \in {"export", "import"} :
          LET t == IF op = "export" THEN ExportTarget(arg) ELSE ImportTarget(arg)
          IN  ret' = [op |-> op, branch |-> t.branch, pq_branch |-> t.pq_branch]
    /\ pc' = "target_returned"
    /\ UNCHANGED <<fs, pureVars>>

InitPure ==
    /\ (InitWritePatch \/ InitNaming \/ InitGetEnv)
    /\ InitPureLocals

NextPure ==
    \/ WritePatchCall
    \/ NamingCall
    \/ TargetCall
    \/ GetEnvCall

SpecPure == InitPure /\ [][NextPure]_vars

-----------------------------------------------------------------------------
(* What the claims speak of *)

\* the last action main ran, once it has ended
Ended(op) == pc = "main" /\ log # <<>> /\ Last(log).op = op

\* import_quilt_patches is running, or was the last action to run
ImportCurrent == pc # "main" \/ Ended("import")

ImportOk == Ended("import") /\ Last(log).res = "ok"

ImportExhausted == Ended("import") /\ Last(log).msg = "apply"

\* the series as it was on disk when the action began: the diff of its j-th patch
SeriesDiff(j) == Field(pre.fs[PATCH_DIR \o pre.fs[SERIES_FILE][j]], "diff", <<NoneStr>>)[1]

\* the tip of the base branch when the action began
BaseTip == ChainLen(pre.refs[branch])

\* the number of candidates: min(tries, length of the history of the base branch)
NumCandidates == IF tries < BaseTip THEN tries ELSE BaseTip

\* C1: a successful import tried the candidates most recent first, from the tip of
\* the base branch, each failing but the last one; the patch-queue branch exists, is
\* the active branch, and is the last candidate followed by one commit per patch of
\* the series, in the order of the series file; no other branch was left behind.
C1_TimeMachine ==
    ImportOk =>
        LET k == Len(tried)
        IN  /\ 1 <= k /\ k <= NumCandidates
            /\ \A j \in 1..k : tried[j].commit = BaseTip - j + 1
            /\ \A j \in 1..(k - 1) : tried[j].outcome = "apply_failed"
            /\ tried[k].outcome = "applied"
            /\ DOMAIN refs = DOMAIN pre.refs \cup {pq_branch}
            /\ pq_branch = PQ_BRANCH_PREFIX \o branch
            /\ active = pq_branch
            /\ refs[pq_branch].at = tried[k].commit
            /\ Len(refs[pq_branch].commits) = Len(pre.fs[SERIES_FILE])
            /\ \A j \in DOMAIN refs[pq_branch].commits :
                  refs[pq_branch].commits[j].diff = SeriesDiff(j)

\* C1, witness: an import that succeeded at the third candidate, with two patches
C1_Witness ==
    /\ ImportOk
    /\ Len(tried) = 3
    /\ Len(refs[pq_branch].commits) = 2

\* C2: when the series failed to apply at every candidate, the import has ended with
\* a fatal error, no patch-queue branch of the base exists and the base is active.
C2_Exhausted ==
    ( /\ ImportCurrent
      /\ Len(tried) = NumCandidates
      /\ \A j \in DOMAIN tried : tried[j].outcome = "apply_failed" )
    => /\ Ended("import")
       /\ Last(log).res = "GbpError"
       /\ ~has_branch(refs, PQ_BRANCH_PREFIX \o branch)
       /\ ~is_pq_branch(branch)
       /\ active = branch

\* C2, witness: three candidates, the series failed at each
C2_Witness ==
    /\ ImportExhausted
    /\ Len(tried) = 3
    /\ \A j \in DOMAIN tried : tried[j].outcome = "apply_failed"

\* C3: when import_quilt_patches has returned, or has raised because the candidates
\* are exhausted, no snapshot directory that it created is left.
C3_NoSnapshotLeft ==
    (ImportOk \/ ImportExhausted) => tmpdirs \subseteq pre.tmpdirs


\* the values of the Gbp-Pq-Topic trailers of a commit, in order
RECURSIVE TopicsOf(_)
TopicsOf(body) ==
    IF body = <<>> THEN <<>>
    ELSE IF lower(body[1].k) = "gbp-pq-topic: "
         THEN <<body[1].v[1]>> \o TopicsOf(Tail(body))
         ELSE TopicsOf(Tail(body))

\* an export that succeeded, then an import that succeeded
RoundTripDone ==
    /\ ImportOk
    /\ Len(log) >= 2
    /\ log[Len(log) - 1].op = "export"
    /\ log[Len(log) - 1].res = "ok"

\* C4: after an export of the commits c1..cn of the patch-queue branch and an import
\* of the series it wrote, the patch-queue branch has n commits, the j-th with the
\* diff, the subject and the topic trailer of cj.
C4_RoundTrip ==
    RoundTripDone =>
        LET new == refs[pq_branch].commits
        IN  /\ Len(new) = Len(exported)
            /\ \A j \in DOMAIN new :
                  /\ new[j].diff = exported[j].diff
                  /\ new[j].subject = exported[j].subject
                  /\ TopicsOf(new[j].body) = TopicsOf(exported[j].body)


\* the repository is as it was when the action began
Untouched ==
    /\ refs = pre.refs
    /\ active = pre.active
    /\ fs = pre.fs
    /\ tmpdirs = pre.tmpdirs

\* the current branch is a patch-queue branch, or its patch-queue branch exists
ImportPrecondViolated ==
    \/ is_pq_branch(pre.active)
    \/ has_branch(pre.refs, PQ_BRANCH_PREFIX \o pre.active)

\* C5: an import without force, begun on a patch-queue branch or while the target
\* patch-queue branch exists, ends with a fatal error and leaves the repository as
\* it was: it creates, deletes or switches no branch and creates no snapshot.
C5_RefusedUntouched ==
    (ImportCurrent /\ ~force /\ ImportPrecondViolated) =>
        /\ Untouched
        /\ pc \in {"main", "import_211"}
        /\ pc = "main" => Last(log).res = "GbpError"

\* C5, witness: an import without force was refused as the patch-queue branch exists
C5_Witness ==
    /\ Ended("import")
    /\ ~force
    /\ ~is_pq_branch(pre.active)
    /\ has_branch(pre.refs, pq_branch)
    /\ Last(log).res = "GbpError"

\* C6: when creating the patch-queue branch fails at a candidate, the import has
\* ended with a fatal error at that candidate: it is the last one tried, no patch
\* was applied at it (no patch-queue branch exists) and the base is still active.
C6_CreateFailureFatal ==
    ImportCurrent =>
        \A j \in DOMAIN tried :
            tried[j].outcome = "create_failed" =>
                /\ j = Len(tried)
                /\ Ended("import")
                /\ Last(log).res = "GbpError"
                /\ ~has_branch(refs, pq_branch)
                /\ active = branch

\* C6, witness: the creation failed at the second of three candidates
C6_Witness ==
    /\ Ended("import")
    /\ Len(tried) = 2
    /\ Len(commits) = 3
    /\ tried[2].outcome = "create_failed"

\* C7: no action ends with the error of the maintainer lookup: a patch without
\* author or email is committed whatever debian/control holds.
C7_ResolverNeverFatal ==
    \A j \in DOMAIN log : log[j].res # "IndexError"

\* the commits the running import has made on the patch-queue branch
Imported ==
    IF ImportCurrent /\ pc # "import_211" /\ pc # "import_218" /\ has_branch(refs, pq_branch)
       /\ (Ended("import") => Last(log).res \in {"ok", "IndexError"})
    THEN refs[pq_branch].commits ELSE <<>>

\* C8: the commit of a patch with an author name and an email has them as its
\* author; the commit of a patch that lacks one of them has the name and the email
\* of the Maintainer field, when debian/control has one that parses.
C8_AuthorFallback ==
    \A j \in DOMAIN Imported :
        LET c == Imported[j]
            p == queue[j]
        IN  IF p.author # NoneStr /\ p.email # NoneStr
            THEN c.name = p.author /\ c.email = p.email
            ELSE control = "ok" => c.name = "Jane Doe" /\ c.email = "jane@example.org"

\* C8, witness: an import committed a patch with an author name and no email under
\* the maintainer's identity
C8_Witness ==
    /\ ImportOk
    /\ control = "ok"
    /\ \E j \in DOMAIN Imported :
          /\ queue[j].author # NoneStr
          /\ queue[j].email = NoneStr
          /\ Imported[j].name = "Jane Doe"

\* C9: drop_pq on a patch-queue branch ends with a fatal error and leaves the
\* branches and the active branch as they were.
C9_DropOnPq ==
    (Ended("drop") /\ is_pq_branch(pre.active)) =>
        /\ Last(log).res = "GbpError"
        /\ refs = pre.refs
        /\ active = pre.active

\* C9, witness: drop was run on the patch-queue branch
C9_Witness ==
    /\ Ended("drop")
    /\ is_pq_branch(pre.active)
    /\ has_branch(refs, pre.active)

\* C10: drop_pq on a regular branch b succeeds; patch-queue/b does not exist
\* afterwards, every other branch and the active branch are as they were, and
\* nothing changes when patch-queue/b did not exist.
C10_DropOnBase ==
    (Ended("drop") /\ ~is_pq_branch(pre.active)) =>
        LET pq == PQ_BRANCH_PREFIX \o pre.active
        IN  /\ Last(log).res = "ok"
            /\ DOMAIN refs = DOMAIN pre.refs \ {pq}
            /\ \A b \in DOMAIN refs : refs[b] = pre.refs[b]
            /\ active = pre.active
            /\ fs = pre.fs /\ tmpdirs = pre.tmpdirs
            /\ ~has_branch(pre.refs, pq) => Untouched

\* C10, witness: drop was run on the base branch and deleted its patch-queue branch
C10_Witness ==
    /\ Ended("drop")
    /\ ~is_pq_branch(pre.active)
    /\ has_branch(pre.refs, PQ_BRANCH_PREFIX \o pre.active)
    /\ ~has_branch(refs, PQ_BRANCH_PREFIX \o pre.active)

\* a line that starts with the topic marker, in any case
IsTopicLine(l) == l.k \in {"Gbp-Pq-Topic: ", "gbp-pq-topic: "}

\* C11: when a patch holds several topic lines, write_patch files it under the
\* value of the first of them, leaves that line out of what it writes and copies
\* every other line after the first line of the patch, in order.
C11_FirstTopicWins ==
    pc = "write_patch_returned" =>
        LET body == Tail(arg.lines)
            idx  == {i \in DOMAIN body : IsTopicLine(body[i])}
        IN  Cardinality(idx) >= 2 =>
                LET i0 == CHOOSE i \in idx : \A j \in idx : i <= j
                IN  /\ ret.dstname = PATCH_DIR \o << <<body[i0].v[1]>>, Last(ret.dstname) >>
                    /\ fs[ret.dstname] =
                           SubSeq(body, 1, i0 - 1) \o SubSeq(body, i0 + 1, Len(body))

\* file name name starts with d digits, a hyphen and at least one more character
HasNumberPrefix(name, d) ==
    /\ d >= 1 /\ Len(name) >= d + 2
    /\ \A i \in 1..d : name[i] \in {"0", "1", "2", "3", "4", "5", "6", "7", "8", "9"}
    /\ name[d + 1] = "-"

\* C15: without patch_numbers a file name <digits>-<rest> is written as <rest>;
\* with patch_numbers, or without such a prefix, the name is unchanged.
C15_DestinationName ==
    pc = "write_patch_returned" =>
        LET name == Last(arg.patch)
            dst  == Last(ret.dstname)
        IN  IF ~ret.patch_numbers /\ \E d \in 1..Len(name) : HasNumberPrefix(name, d)
            THEN \E d \in 1..Len(name) :
                    /\ HasNumberPrefix(name, d)
                    /\ dst = SubSeq(name, d + 2, Len(name))
            ELSE dst = name

\* C15, witness: 01-f was written as f
C15_Witness ==
    /\ pc = "write_patch_returned"
    /\ ~ret.patch_numbers
    /\ Last(arg.patch) = <<"0", "1", "-", "f">>
    /\ Last(ret.dstname) = <<"f">>

\* C16: for a name b without the prefix, pq_branch_base(pq_branch_name(b)) is b
\* and pq_branch_name(b) is a patch-queue name; pq_branch_name of a patch-queue
\* name is absent, and pq_branch_base of any other name is absent.
C16_NamingRoundTrip ==
    pc = "naming_returned" =>
        IF startswith(arg, PQ_BRANCH_PREFIX)
        THEN ret.name = None
        ELSE /\ ret.name # None
             /\ ret.base_of_name = arg
             /\ ret.is_pq_of_name
             /\ ret.base = None

\* C16, witness: master went to patch-queue/master and back
C16_Witness ==
    /\ pc = "naming_returned"
    /\ arg = Master
    /\ ret.name = PQ_BRANCH_PREFIX \o Master
    /\ ret.base_of_name = Master

\* C17: whatever the current branch (regular, or with any number of leading
\* prefixes), the patch-queue branch export_patches and import_quilt_patches with
\* force work on is defined, and is the prefix followed by a name without prefix.
C17_TargetWellFormed ==
    pc = "target_returned" =>
        /\ ret.pq_branch # None
        /\ startswith(ret.pq_branch, PQ_BRANCH_PREFIX)
        /\ ~startswith(SubSeq(ret.pq_branch, Len(PQ_BRANCH_PREFIX) + 1, Len(ret.pq_branch)),
                       PQ_BRANCH_PREFIX)

\* the fields of a modifier that are set: neither None nor empty
SetFields(m) ==
    {f \in {"NAME", "EMAIL", "DATE"} :
        LET v == IF f = "NAME" THEN m.name ELSE IF f = "EMAIL" THEN m.email ELSE m.date
        IN  v # NoneStr /\ v # ""}

\* the pairs GIT_<ROLE>_<FIELD> of the fields of m that are set
ExpectedEnv(m, ROLE) ==
    {<< <<"GIT_", ROLE, "_", f>>,
        IF f = "NAME" THEN m.name ELSE IF f = "EMAIL" THEN m.email ELSE m.date >> :
     f \in SetFields(m)}

\* C18 as stated: for the role 'author' or 'committer' _get_env returns exactly the
\* pairs of the fields that are set; for any other role it raises
\* GitModifierError and returns nothing.
C18_GetEnvExactRole ==
    pc = "get_env_returned" =>
        IF arg.who \in {"author", "committer"}
        THEN /\ ret.raised = NoneStr
             /\ ret.env = ExpectedEnv(arg, IF arg.who = "author" THEN "AUTHOR" ELSE "COMMITTER")
        ELSE /\ ret.raised = "GitModifierError"
             /\ ret.env = {}

\* C18, amended: the role is taken ignoring case; for a spelling of 'author' or
\* 'committer' _get_env returns exactly the pairs of the fields that are set, for
\* any other role it raises GitModifierError and returns nothing.
C18_GetEnv ==
    pc = "get_env_returned" =>
        LET isAuthor    == arg.who \in {"author", "Author", "AUTHOR"}
            isCommitter == arg.who \in {"committer", "Committer", "COMMITTER"}
        IN  IF isAuthor \/ isCommitter
            THEN /\ ret.raised = NoneStr
                 /\ ret.env = ExpectedEnv(arg, IF isAuthor THEN "AUTHOR" ELSE "COMMITTER")
            ELSE /\ ret.raised = "GitModifierError"
                 /\ ret.env = {}

\* C18, witness: the role AUTHOR gave the pairs of a modifier with a name and an
\* email and no date
C18_Witness ==
    /\ pc = "get_env_returned"
    /\ arg.who = "AUTHOR"
    /\ arg.name = "x" /\ arg.email = "x" /\ arg.date = NoneStr
    /\ ret.raised = NoneStr
    /\ Cardinality(ret.env) = 2

ExportOk == Ended("export") /\ Last(log).res = "ok"

\* the name git format-patch gave the patch of the j-th exported commit
RawName(j) == <<"0", Digit[j], "-">> \o exported[j].subject \o <<".patch">>

\* the name the last export gave the patch of the j-th exported commit
ExportedName(j) ==
    IF Last(log).msg = "numbers" THEN RawName(j) ELSE exported[j].subject \o <<".patch">>

\* the lines Gbp-Pq-Topic: of the j-th exported commit
TopicLines(j) ==
    {i \in DOMAIN exported[j].body : exported[j].body[i].k = "Gbp-Pq-Topic: "}

\* C12: for a commit with one line Gbp-Pq-Topic: foo, the patch export_patches
\* writes holds neither the line From <sha1> nor the topic line, is in the
\* directory foo of the patches directory, the file format-patch wrote is gone,
\* and the line of the series file for it is foo/<name>.
C12_TopicPatch ==
    ExportOk =>
        \A j \in DOMAIN exported :
            Cardinality(TopicLines(j)) = 1 =>
                LET foo == exported[j].body[CHOOSE i \in TopicLines(j) : TRUE].v[1]
                    rel == << <<foo>>, ExportedName(j) >>
                IN  /\ PATCH_DIR \o rel \in DOMAIN fs
                    /\ \A i \in DOMAIN fs[PATCH_DIR \o rel] :
                          fs[PATCH_DIR \o rel][i].k \notin {"From ", "Gbp-Pq-Topic: "}
                    /\ PATCH_DIR \o <<RawName(j)>> \notin DOMAIN fs
                    /\ fs[SERIES_FILE][j] = rel

\* C12, witness: a commit with the topic t was exported to t/g.patch
C12_Witness ==
    /\ ExportOk
    /\ \E j \in DOMAIN exported :
          /\ Cardinality(TopicLines(j)) = 1
          /\ fs[SERIES_FILE][j] = << <<"t">>, <<"g", ".patch">> >>

\* the path, below the patches directory, of the patch of the j-th exported commit
ExpectedRel(j) ==
    LET topics == TopicsOf(exported[j].body)
    IN  IF topics # <<>> /\ Last(topics) # ""
        THEN << <<Last(topics)>>, ExportedName(j) >>
        ELSE << ExportedName(j) >>

\* C13: after an export of n >= 1 commits the series file has n lines, the j-th
\* is the path below the patches directory of the patch of the j-th commit,
\* oldest first, and every line names a file of the patches directory.
C13_SeriesOrder ==
    (ExportOk /\ Len(exported) >= 1) =>
        /\ SERIES_FILE \in DOMAIN fs
        /\ Len(fs[SERIES_FILE]) = Len(exported)
        /\ \A j \in DOMAIN exported :
              /\ fs[SERIES_FILE][j] = ExpectedRel(j)
              /\ PATCH_DIR \o fs[SERIES_FILE][j] \in DOMAIN fs

\* C13, witness: two commits were exported, to different paths
C13_Witness ==
    /\ ExportOk
    /\ Len(exported) = 2
    /\ Len(fs[SERIES_FILE]) = 2
    /\ fs[SERIES_FILE][1] # fs[SERIES_FILE][2]

\* the branch the action that began in pre exports to, and its patch-queue branch
PreBase ==
    IF startswith(pre.active, PQ_BRANCH_PREFIX)
    THEN SubSeq(pre.active, Len(PQ_BRANCH_PREFIX) + 1, Len(pre.active))
    ELSE pre.active

PrePq == PQ_BRANCH_PREFIX \o PreBase

\* the patch-queue branch existed and had no commit that the base branch lacks
NothingToExport ==
    /\ PrePq \in DOMAIN pre.refs
    /\ pre.refs[PrePq].commits = <<>>

Loaded == pc \in {"import_228", "import_236", "import_238", "import_247"}

\* import_quilt_patches has read the series and has not tried a commit yet
JustLoaded == pc = "import_228" /\ ci = 1 /\ tried = <<>>

\* the snapshot exists if and only if there is more than one candidate, and the
\* queue is the series read from it (from the series file itself without one)
SnapshotAndQueue ==
    /\ (tmpdir # NoDir) <=> (Len(commits) > 1)
    /\ tmpdirs = IF Len(commits) > 1 THEN pre.tmpdirs \cup {tmpdir} ELSE pre.tmpdirs
    /\ series = IF Len(commits) > 1
                THEN tmpdir \o << <<"patches">>, <<"series">> >>
                ELSE SERIES_FILE
    /\ queue = read_series_file(fs, series)
    /\ Len(queue) = Len(pre.fs[SERIES_FILE])

\* C19 as stated: the snapshot is made if and only if there is more than one
\* candidate, before the call creates, deletes or switches any branch; the
\* series is read once, from the snapshot when there is one, and every attempt
\* applies it.
C19_SnapshotBeforeAnyMutation ==
    /\ Loaded => SnapshotAndQueue
    /\ (JustLoaded /\ tmpdir # NoDir) => (refs = pre.refs /\ active = pre.active)

\* C19, amended: the snapshot is made if and only if there is more than one
\* candidate, before any candidate branch is created or any patch applied; with
\* force the switch to the base branch and the drop of the existing patch-queue
\* branch come before it, without force nothing does; the series is read once,
\* from the snapshot when there is one, and every attempt applies it.
C19_SnapshotBeforeAttempts ==
    /\ Loaded => SnapshotAndQueue
    /\ JustLoaded =>
          /\ ~has_branch(refs, pq_branch)
          /\ \A b \in DOMAIN refs : b \in DOMAIN pre.refs /\ refs[b] = pre.refs[b]
          /\ active = branch
          /\ ~force => (refs = pre.refs /\ active = pre.active)

\* C19, witness: an import with force from the patch-queue branch made a snapshot
\* and is applying the series a second time
C19_Witness ==
    /\ pc = "import_236"
    /\ force
    /\ is_pq_branch(pre.active)
    /\ tmpdir # NoDir
    /\ Len(tried) >= 1
    /\ queue = read_series_file(fs, series)

\* C20: import_quilt_patches and apply_single_patch leave every regular branch
\* where it was, whether they succeed or fail and at every step of the time
\* machine: the commits they make are on patch-queue branches.
C20_BaseNotMoved ==
    (ImportCurrent \/ Ended("apply")) =>
        /\ \A b \in DOMAIN pre.refs :
              ~is_pq_branch(b) => (b \in DOMAIN refs /\ refs[b] = pre.refs[b])
        /\ \A b \in DOMAIN refs : refs[b].commits # <<>> => is_pq_branch(b)

\* C20, witness: apply_single_patch, called on the base branch, created the
\* patch-queue branch and committed the patch on it
C20_Witness ==
    /\ Ended("apply")
    /\ Last(log).res = "ok"
    /\ ~is_pq_branch(pre.active)
    /\ ~has_branch(pre.refs, PQ_BRANCH_PREFIX \o pre.active)
    /\ Len(refs[PQ_BRANCH_PREFIX \o pre.active].commits) = 1

====
